---- MODULE Spec2Model ----
(***************************************************************************)
(* The move-search engines of the chess application: evaluateBoard,       *)
(* minimax and getBestMove of src/src/lib/engine.ts (two variants in one   *)
(* file), src/unnamed/part_003, part_004 and part_005 (two variants).      *)
(*                                                                         *)
(* chess.js (the Chess object) is an external library.  It is modelled as  *)
(* a family of game trees: a position is the path of moves from the        *)
(* position the caller holds, and its legal moves, check flag, draw flag   *)
(* and board are fixed functions of the game and the path.                 *)
(*                                                                         *)
(* Scores of the first variant of engine.ts are kept in units of 1/20,     *)
(* because its tables hold halves and its jitter is below 0.1; the scores  *)
(* of the other variants are kept in the units of the source.              *)
(***************************************************************************)
EXTENDS Integers, Sequences, FiniteSets, TLC

\* ------------------------------------------------------------------ bounds
\* number of game trees the caller's position is drawn from
NumGames == 6
\* largest number of legal moves of one position
MaxMoves == 3
\* largest number of evaluations, over the calls, that draw a nonzero jitter
MaxJitter == 1
\* largest number of calls of getBestMove the caller makes on one position
MaxCalls == 2
\* largest number of minimax calls nested in one another
MaxStack == 4
\* largest number of things the users of an App do (accepted drops, changes
\* of a setting)
MaxActs == 3

\* --------------------------------------------------------------- JS values
Null == "null"
Undefined == "undefined"
EmptyString == ""
\* JavaScript truthiness of a value that is a string, null or undefined
Truthy(v) == v \notin {Null, Undefined, EmptyString}
\* a || b
OrElse(a, b) == IF Truthy(a) THEN a ELSE b
\* array[i] with a zero-based index: undefined outside the array
ArrayGet(arr, i) == IF i + 1 \in DOMAIN arr THEN arr[i + 1] ELSE Undefined
Max(a, b) == IF a >= b THEN a ELSE b
Min(a, b) == IF a <= b THEN a ELSE b
Abs(a) == IF a >= 0 THEN a ELSE -a
Infinity == 1000000000
\* a value that is not a number (a function, NaN): arithmetic on it yields
\* it again, and it is not === 0
NotANumber == 0 - (2 * Infinity)
\* a - 1
Minus1(a) == IF a = NotANumber THEN NotANumber ELSE a - 1

Variants == {"E1", "E2", "P3", "P4", "P5a", "P5b"}
\* "Other" is a string no engine names; "constructor" is one that names a
\* property every object inherits
Difficulties == {"Beginner", "Easy", "Hard", "Master", "Other", "constructor"}

\* ------------------------------------------------------- chess.js: boards
NoPiece == [type |-> "-", color |-> "-"]
Pc(t, c) == [type |-> t, color |-> c]
\* a board from a set of placements <<row, column, type, color>>;
\* row 0 is rank 8, as in Chess.board()
MkBoard(S) ==
  [i \in 0..7 |-> [j \in 0..7 |->
     IF \E p \in S : p[1] = i /\ p[2] = j
       THEN LET p == CHOOSE q \in S : q[1] = i /\ q[2] = j IN Pc(p[3], p[4])
       ELSE NoPiece]]
Kings == {<<7, 4, "k", "w">>, <<0, 4, "k", "b">>}
Boards ==
  << MkBoard(Kings),
     MkBoard(Kings \cup {<<4, 4, "p", "w">>}),
     MkBoard(Kings \cup {<<3, 4, "p", "b">>}),
     MkBoard(Kings \cup {<<7, 3, "q", "w">>}),
     MkBoard(Kings \cup {<<2, 5, "n", "b">>}),
     MkBoard(Kings \cup {<<5, 2, "n", "w">>, <<0, 0, "r", "b">>}),
     MkBoard(Kings \cup {<<1, 0, "p", "w">>, <<6, 7, "p", "b">>, <<0, 3, "q", "b">>}),
     MkBoard(Kings \cup {<<4, 3, "p", "w">>, <<3, 3, "p", "b">>, <<7, 2, "b", "w">>}),
     MkBoard(Kings \cup {<<7, 0, "r", "w">>, <<4, 4, "n", "w">>, <<1, 1, "p", "b">>}) >>
NumBoards == Len(Boards)

\* --------------------------------------------------- chess.js: game trees
\* A game is [seed, first, pos, history]: the tree, the side to move at the
\* caller's position, the path of moves applied and the undo stack.
RECURSIVE Key(_, _)
Key(seed, pos) ==
  IF pos = <<>> THEN ((seed * 7919) + 4001) % 9973
  ELSE ((Key(seed, SubSeq(pos, 1, Len(pos) - 1)) * 131) + (pos[Len(pos)] * 3571) + 17) % 9973

NumMoves(seed, pos) ==
  LET r == Key(seed, pos) % (MaxMoves + 2) IN IF r > MaxMoves THEN MaxMoves ELSE r
SAN(k) == "m" \o ToString(k)
\* game.moves()
moves(game) == [k \in 1..NumMoves(game.seed, game.pos) |-> SAN(k)]
\* game.turn()
turn(game) ==
  IF Len(game.pos) % 2 = 0 THEN game.first
  ELSE IF game.first = "w" THEN "b" ELSE "w"
inCheck(game) == (Key(game.seed, game.pos) \div 7) % 2 = 1
\* game.isCheckmate()
isCheckmate(game) == NumMoves(game.seed, game.pos) = 0 /\ inCheck(game)
isStalemate(game) == NumMoves(game.seed, game.pos) = 0 /\ ~inCheck(game)
\* insufficient material, fifty-move rule or threefold repetition
isOtherDraw(game) ==
  NumMoves(game.seed, game.pos) > 0 /\ (Key(game.seed, game.pos) \div 11) % 6 = 0
\* game.isGameOver()
isGameOver(game) == isCheckmate(game) \/ isStalemate(game) \/ isOtherDraw(game)
\* game.board()
board(game) == Boards[1 + ((Key(game.seed, game.pos) \div 13) % NumBoards)]

MoveIndex(game, san) == CHOOSE k \in 1..NumMoves(game.seed, game.pos) : SAN(k) = san
CanMove(game, san) == \E k \in 1..NumMoves(game.seed, game.pos) : SAN(k) = san
\* game.move(san)
Move(game, san) ==
  [game EXCEPT !.pos = Append(game.pos, MoveIndex(game, san)),
               !.history = Append(game.history, [san |-> san, before |-> game.pos])]
Undo_Skipped(game) == game
Undo_Twice(game) ==
  IF Len(game.history) < 2 THEN game
  ELSE [game EXCEPT !.pos = game.history[Len(game.history) - 1].before,
                    !.history = SubSeq(game.history, 1, Len(game.history) - 2)]
\* game.undo()
Undo(game) ==
  IF game.history = <<>> THEN game
  ELSE [game EXCEPT !.pos = game.history[Len(game.history)].before,
                    !.history = SubSeq(game.history, 1, Len(game.history) - 1)]

RECURSIVE SumTo(_, _)
SumTo(f, n) == IF n = 0 THEN 0 ELSE f[n - 1] + SumTo(f, n - 1)

\* ------------------------------------------------------------- evaluators
\* engine.ts, first variant (units of 1/20)
PIECE_VALUES_E1 == [p |-> 200, n |-> 600, b |-> 600, r |-> 1000, q |-> 1800, k |-> 18000]
PAWN_TABLE ==
  << <<0, 0, 0, 0, 0, 0, 0, 0>>,
     <<100, 100, 100, -100, -100, 100, 100, 100>>,
     <<20, 20, 40, 60, 60, 40, 20, 20>>,
     <<10, 10, 20, 50, 50, 20, 10, 10>>,
     <<0, 0, 0, 40, 40, 0, 0, 0>>,
     <<10, -10, -20, 0, 0, -20, -10, 10>>,
     <<10, 20, 20, -40, -40, 20, 20, 10>>,
     <<0, 0, 0, 0, 0, 0, 0, 0>> >>
KNIGHT_TABLE ==
  << <<-100, -80, -60, -60, -60, -60, -80, -100>>,
     <<-80, -40, 0, 0, 0, 0, -40, -80>>,
     <<-60, 0, 20, 30, 30, 20, 0, -60>>,
     <<-60, 10, 30, 40, 40, 30, 10, -60>>,
     <<-60, 0, 30, 40, 40, 30, 0, -60>>,
     <<-60, 10, 20, 30, 30, 20, 10, -60>>,
     <<-80, -40, 0, 10, 10, 0, -40, -80>>,
     <<-100, -80, -60, -60, -60, -60, -80, -100>> >>
\* jsq: the square (8 * row + column) whose piece draws the jitter 0.05, or
\* -1 when every piece draws 0
evaluateBoard_E1(b, jsq) ==
  SumTo([n \in 0..63 |->
    LET i == n \div 8
        j == n % 8
        piece == b[i][j]
    IN IF piece = NoPiece THEN 0
       ELSE LET value == PIECE_VALUES_E1[piece.type]
                positionBonus ==
                  IF piece.type = "p"
                    THEN (IF piece.color = "w" THEN PAWN_TABLE[i + 1][j + 1]
                          ELSE PAWN_TABLE[(7 - i) + 1][j + 1])
                  ELSE IF piece.type = "n"
                    THEN (IF piece.color = "w" THEN KNIGHT_TABLE[i + 1][j + 1]
                          ELSE KNIGHT_TABLE[(7 - i) + 1][j + 1])
                  ELSE 0
                jitter == IF jsq = n THEN 1 ELSE 0
            IN IF piece.color = "w" THEN value + positionBonus + jitter
               ELSE 0 - (value + positionBonus + jitter)], 64)

\* engine.ts, second variant
PIECE_VALUES_E2 == [p |-> 10, r |-> 50, n |-> 30, b |-> 30, q |-> 90, k |-> 900]
getPieceValue_E2_Unsigned(piece, x, y) ==
  IF piece = NoPiece THEN 0 ELSE PIECE_VALUES_E2[piece.type]
getPieceValue_E2(piece, x, y) ==
  IF piece = NoPiece THEN 0
  ELSE LET absoluteValue == PIECE_VALUES_E2[piece.type]
       IN IF piece.color = "w" THEN absoluteValue ELSE 0 - absoluteValue
evaluateBoard_E2(b) ==
  SumTo([n \in 0..63 |-> getPieceValue_E2(b[n \div 8][n % 8], n \div 8, n % 8)], 64)

\* part_003
PIECE_VALUES_P3 == [p |-> 10, n |-> 30, b |-> 30, r |-> 50, q |-> 90, k |-> 900]
PST_P3 ==
  [p |-> << <<0, 0, 0, 0, 0, 0, 0, 0>>,
            <<50, 50, 50, 50, 50, 50, 50, 50>>,
            <<10, 10, 20, 30, 30, 20, 10, 10>>,
            <<5, 5, 10, 25, 25, 10, 5, 5>>,
            <<0, 0, 0, 20, 20, 0, 0, 0>>,
            <<5, -5, -10, 0, 0, -10, -5, 5>>,
            <<5, 10, 10, -20, -20, 10, 10, 5>>,
            <<0, 0, 0, 0, 0, 0, 0, 0>> >>,
   n |-> << <<-50, -40, -30, -30, -30, -30, -40, -50>>,
            <<-40, -20, 0, 0, 0, 0, -20, -40>>,
            <<-30, 0, 10, 15, 15, 10, 0, -30>>,
            <<-30, 5, 15, 20, 20, 15, 5, -30>>,
            <<-30, 0, 15, 20, 20, 15, 0, -30>>,
            <<-30, 5, 10, 15, 15, 10, 5, -30>>,
            <<-40, -20, 0, 5, 5, 0, -20, -40>>,
            <<-50, -40, -30, -30, -30, -30, -40, -50>> >>]
evaluateBoard_P3_NoMirror(b) ==
  SumTo([n \in 0..63 |->
    LET i == n \div 8
        j == n % 8
        piece == b[i][j]
    IN IF piece = NoPiece THEN 0
       ELSE LET val == PIECE_VALUES_P3[piece.type] +
                       (IF piece.type \in DOMAIN PST_P3
                          THEN PST_P3[piece.type][i + 1][j + 1]
                          ELSE 0)
            IN IF piece.color = "w" THEN val ELSE 0 - val], 64)
evaluateBoard_P3(b) ==
  SumTo([n \in 0..63 |->
    LET i == n \div 8
        j == n % 8
        piece == b[i][j]
    IN IF piece = NoPiece THEN 0
       ELSE LET val == PIECE_VALUES_P3[piece.type] +
                       (IF piece.type \in DOMAIN PST_P3
                          THEN PST_P3[piece.type][(IF piece.color = "w" THEN i ELSE 7 - i) + 1][j + 1]
                          ELSE 0)
            IN IF piece.color = "w" THEN val ELSE 0 - val], 64)

\* part_004
PIECE_VALUES_P4 == [p |-> 100, n |-> 320, b |-> 330, r |-> 500, q |-> 900, k |-> 20000]
evaluateBoard_P4(b) ==
  SumTo([n \in 0..63 |->
    LET piece == b[n \div 8][n % 8]
    IN IF piece = NoPiece THEN 0
       ELSE LET value == PIECE_VALUES_P4[piece.type]
            IN IF piece.color = "w" THEN value ELSE 0 - value], 64)

\* part_005, first variant
PIECE_VALUES_P5a == [p |-> 10, n |-> 30, b |-> 30, r |-> 50, q |-> 90, k |-> 900]
getPieceValue_P5a(piece) ==
  IF piece = NoPiece THEN 0
  ELSE LET val == PIECE_VALUES_P5a[piece.type]
       IN IF piece.color = "w" THEN val ELSE 0 - val
evaluateBoard_P5a(b) ==
  SumTo([n \in 0..63 |-> getPieceValue_P5a(b[n \div 8][n % 8])], 64)

\* part_005, second variant
pieceValues_P5b == [p |-> 10, n |-> 30, b |-> 30, r |-> 50, q |-> 90, k |-> 900]
evaluateBoard_P5b(b) ==
  SumTo([n \in 0..63 |->
    LET piece == b[n \div 8][n % 8]
    IN IF piece = NoPiece THEN 0
       ELSE LET value == pieceValues_P5b[piece.type]
            IN IF piece.color = "w" THEN value ELSE 0 - value], 64)

\* evaluateBoard of the variant v on the position of game
evaluateBoard(v, game, jsq) ==
  CASE v = "E1" -> evaluateBoard_E1(board(game), jsq)
    [] v = "E2" -> evaluateBoard_E2(board(game))
    [] v = "P3" -> evaluateBoard_P3(board(game))
    [] v = "P4" -> evaluateBoard_P4(board(game))
    [] v = "P5a" -> evaluateBoard_P5a(board(game))
    [] v = "P5b" -> evaluateBoard_P5b(board(game))
\* ------------------------------------------------- getBestMove: the policy
\* the search depth of a difficulty
DepthOf(v, d) ==
  CASE v = "E1" -> (IF d = "Master" THEN 3 ELSE IF d = "Hard" THEN 2 ELSE 1)
    [] v \in {"E2", "P3"} -> (IF d = "Easy" THEN 1 ELSE IF d = "Hard" THEN 2 ELSE 3)
    [] v = "P4" -> (IF d = "Master" THEN 3 ELSE IF d = "Hard" THEN 3 ELSE 2)
    [] v = "P5a" -> (IF d = "Master" THEN 4 ELSE IF d = "Hard" THEN 3 ELSE 2)
    [] v = "P5b" -> (IF d = "Easy" THEN 1 ELSE IF d = "Hard" THEN 2
                     ELSE IF d = "Master" THEN 3
                     ELSE IF d = "constructor" THEN NotANumber ELSE 2)
\* `if (possibleMoves.length === 0) return ...`: part_003 has no such test
HasEmptyCheck(v) == v # "P3"
\* what the empty-list test returns
NoMove(v) == IF v = "E2" THEN EmptyString ELSE Null
RandomIndex_Round(len) == 0..len
RandomIndex_First(len) == {0}
\* Math.floor(Math.random() * len)
RandomIndex(len) == IF len = 0 THEN {0} ELSE 0..(len - 1)
\* isMaximizing at the root: only the first variant of engine.ts reads game.turn()
RootIsMaximizing(v, game) == IF v = "E1" THEN turn(game) = "w" ELSE TRUE
\* the isMaximizingPlayer argument of the root's minimax calls
RootChildIsMax(v, game) == IF v = "E1" THEN ~RootIsMaximizing(v, game) ELSE FALSE
RootChildDepth_NoDecrement(v, depth) == depth
\* the depth argument of the root's minimax calls
RootChildDepth(v, depth) == IF v = "P3" THEN depth ELSE Minus1(depth)
\* the alpha and beta arguments of the root's minimax calls
RootAlpha(v) ==
  CASE v = "E1" -> -2000000
    [] v \in {"E2", "P5a", "P5b"} -> -10000
    [] v \in {"P3", "P4"} -> -Infinity
RootBeta(v) ==
  CASE v = "E1" -> 2000000
    [] v \in {"E2", "P5a", "P5b"} -> 10000
    [] v \in {"P3", "P4"} -> Infinity
InitBestValue(v, isMax) ==
  CASE v = "E1" -> (IF isMax THEN -1999980 ELSE 1999980)
    [] v \in {"E2", "P5a", "P5b"} -> -9999
    [] v \in {"P3", "P4"} -> -Infinity
InitBestMove(v, pm) ==
  CASE v = "E2" -> EmptyString
    [] v = "P3" -> ArrayGet(pm, 0)
    [] OTHER -> Null
\* the orders in which the root loop may see the moves:
\* part_004 sorts them with a random comparator first
Orders(v, pm) ==
  IF v = "P4"
    THEN {[k \in DOMAIN pm |-> pm[f[k]]] :
            f \in {g \in [DOMAIN pm -> DOMAIN pm] : \A a, b \in DOMAIN pm : g[a] = g[b] => a = b}}
    ELSE {pm}
RootBetter_FirstSeen(isMax, boardValue, best) == best = 0 - Infinity
RootBetter_OrEqual(isMax, boardValue, best) ==
  IF isMax THEN boardValue >= best ELSE boardValue <= best
\* the root's comparison of a move's score with the best so far
RootBetter(isMax, boardValue, best) ==
  IF isMax THEN boardValue > best ELSE boardValue < best
FallBack_NoDefault(v, best, pm) == best
\* the value of the final return statement
FallBack(v, best, pm) == IF v = "P3" THEN best ELSE OrElse(best, ArrayGet(pm, 0))

\* ------------------------------------------------------ minimax: the policy
\* bestEval before the loop
InitBestEval(v, isMax) ==
  CASE v = "E1" -> (IF isMax THEN -199980 ELSE 199980)
    [] v \in {"E2", "P5a", "P5b"} -> (IF isMax THEN -9999 ELSE 9999)
    [] v \in {"P3", "P4"} -> (IF isMax THEN -Infinity ELSE Infinity)
\* the node returns before its loop
IsTerminal(v, depth, game) ==
  CASE v \in {"E1", "P4"} -> depth = 0 \/ isGameOver(game)
    [] v \in {"E2", "P5a", "P5b"} -> depth = 0
    [] v = "P3" -> depth = 0 \/ Len(moves(game)) = 0
TerminalValue(v, depth, isMax, game, jsq) ==
  IF v = "P3" /\ depth # 0
    THEN (IF isCheckmate(game) THEN (IF isMax THEN -10000 ELSE 10000) ELSE 0)
    ELSE 0 - evaluateBoard(v, game, jsq)
NewAlpha_Child(v, alpha, evalVal, bestEval) == evalVal
\* the new alpha of a maximizing node, the new beta of a minimizing node:
\* from the child's value in engine.ts (first variant) and part_004, from
\* the updated bestEval elsewhere
NewAlpha(v, alpha, evalVal, bestEval) ==
  IF v \in {"E1", "P4"} THEN Max(alpha, evalVal) ELSE Max(alpha, bestEval)
NewBeta(v, beta, evalVal, bestEval) ==
  IF v \in {"E1", "P4"} THEN Min(beta, evalVal) ELSE Min(beta, bestEval)
Cutoff_Reversed(alpha, beta) == alpha <= beta
\* `if (beta <= alpha) break` (or `return bestEval`)
Cutoff(alpha, beta) == beta <= alpha
Frame(v, depth, alpha, beta, isMax, game) ==
  [depth |-> depth, alpha |-> alpha, beta |-> beta, isMax |-> isMax,
   moves |-> moves(game), idx |-> 1, bestEval |-> InitBestEval(v, isMax), cut |-> FALSE,
   entry |-> game]
\* the squares of a board that hold a piece
Occupied(b) == {n \in 0..63 : b[n \div 8][n % 8] # NoPiece}

\* ------------------------------------------------------------------ state
VARIABLES
  variant,        \* which engine file is linked
  difficulty,     \* the difficulty argument
  game,           \* the Chess object passed in
  pc,             \* "idle", "root" (in the root loop), "done" or "thrown"
  possibleMoves,  \* getBestMove: the root's move list
  depth,          \* getBestMove: the mapped depth
  isMaximizing,   \* getBestMove: the root's direction
  rootIdx,        \* getBestMove: index of the root move being searched
  bestMove,       \* getBestMove
  bestValue,      \* getBestMove
  stack,          \* the frames of the active minimax calls, innermost last
  result,         \* the value getBestMove returned
  game0,          \* the Chess object as it was at the call
  applied,        \* number of game.move calls made by the call
  scores,         \* boardValue of every root move searched so far
  ret,            \* the last return of a minimax call
  jitters,        \* number of evaluations that drew a nonzero jitter
  oobRead,        \* an array was read outside its bounds
  maxPly,         \* largest number of moves applied at one time during the call
  failed,         \* a game.move of the call threw
  prev,           \* result, scores and bestValue of the caller's previous call
  calls,          \* number of calls the caller has made
  ui,             \* the Apps: each client's React state
  srv,            \* the Apps: the shared record or channel of the backend
  tasks,          \* the Apps: the pending timers, continuations and messages
  log             \* the Apps: what the handlers have done

vars == <<variant, difficulty, game, pc, possibleMoves, depth, isMaximizing, rootIdx,
          bestMove, bestValue, stack, result, game0, applied, scores, ret, jitters,
          oobRead, maxPly, failed, prev, calls, ui, srv, tasks, log>>
\* the state of the Apps
appVars == <<ui, srv, tasks, log>>
\* no App is running
AppOff == ui = <<>> /\ srv = <<>> /\ tasks = <<>> /\ log = <<>>

NoRet == [called |-> FALSE, game |-> [seed |-> 0, first |-> "w", pos |-> <<>>, history |-> <<>>],
          depth |-> 0, isMax |-> FALSE, leaf |-> FALSE, val |-> 0]

Init ==
  /\ variant \in Variants
  /\ difficulty \in Difficulties
  /\ game \in {[seed |-> s, first |-> t, pos |-> <<>>, history |-> <<>>] :
                 s \in 1..NumGames, t \in {"w", "b"}}
  /\ pc = "idle"
  /\ possibleMoves = <<>>
  /\ depth = 0
  /\ isMaximizing = TRUE
  /\ rootIdx = 1
  /\ bestMove = Null
  /\ bestValue = 0
  /\ stack = <<>>
  /\ result = Undefined
  /\ game0 = game
  /\ applied = 0
  /\ scores = [m \in {} |-> 0]
  /\ ret = NoRet
  /\ jitters = 0
  /\ oobRead = FALSE
  /\ maxPly = 0
  /\ failed = FALSE
  /\ prev = [result |-> Undefined, scores |-> [m \in {} |-> 0], bestValue |-> 0]
  /\ calls = 1
  /\ AppOff

\* ---------------------------------------------------------------- actions
\* getBestMove up to its loop: the move list, the empty-list test, the
\* Beginner branch, the depth and the locals of the search
GetBestMove ==
  /\ pc = "idle"
  /\ LET pm == moves(game) IN
     IF HasEmptyCheck(variant) /\ Len(pm) = 0
       THEN /\ result' = NoMove(variant)
            /\ pc' = "done"
            /\ UNCHANGED <<possibleMoves, depth, isMaximizing, rootIdx, bestMove,
                           bestValue, oobRead>>
     ELSE IF difficulty = "Beginner"
       THEN /\ \E r \in RandomIndex(Len(pm)) :
                 /\ result' = ArrayGet(pm, r)
                 /\ oobRead' = (r + 1 \notin DOMAIN pm)
            /\ pc' = "done"
            /\ UNCHANGED <<possibleMoves, depth, isMaximizing, rootIdx, bestMove, bestValue>>
     ELSE /\ \E order \in Orders(variant, pm) : possibleMoves' = order
          /\ depth' = DepthOf(variant, difficulty)
          /\ isMaximizing' = RootIsMaximizing(variant, game)
          /\ bestMove' = InitBestMove(variant, pm)
          /\ oobRead' = (variant = "P3" /\ Len(pm) = 0)
          /\ bestValue' = InitBestValue(variant, RootIsMaximizing(variant, game))
          /\ rootIdx' = 1
          /\ pc' = "root"
          /\ UNCHANGED result
  /\ game0' = game
  /\ UNCHANGED <<variant, difficulty, game, stack, applied, scores, ret, jitters,
                 maxPly, failed, prev, calls>>
  /\ UNCHANGED appVars

\* the root loop takes its next move: game.move(move) and the call of minimax
RootMove ==
  /\ pc = "root"
  /\ stack = <<>>
  /\ rootIdx <= Len(possibleMoves)
  /\ CanMove(game, possibleMoves[rootIdx])
  /\ LET g1 == Move(game, possibleMoves[rootIdx]) IN
       /\ game' = g1
       /\ stack' = <<Frame(variant, RootChildDepth(variant, depth), RootAlpha(variant),
                           RootBeta(variant), RootChildIsMax(variant, game), g1)>>
  /\ applied' = applied + 1
  /\ maxPly' = Max(maxPly, (Len(game.history) + 1) - Len(game0.history))
  /\ UNCHANGED <<variant, difficulty, pc, possibleMoves, depth, isMaximizing, rootIdx,
                 bestMove, bestValue, result, game0, scores, ret, jitters, oobRead,
                 failed, prev, calls>>
  /\ UNCHANGED appVars

\* a node's loop takes its next move: game.move(move) and the recursive call
MinimaxMove ==
  /\ stack # <<>>
  /\ LET n == Len(stack)
         f == stack[n]
     IN /\ n < MaxStack
        /\ ~IsTerminal(variant, f.depth, game)
        /\ ~f.cut
        /\ f.idx <= Len(f.moves)
        /\ CanMove(game, f.moves[f.idx])
        /\ LET g1 == Move(game, f.moves[f.idx]) IN
             /\ game' = g1
             /\ stack' = Append([stack EXCEPT ![n].idx = f.idx + 1],
                                Frame(variant, Minus1(f.depth), f.alpha, f.beta, ~f.isMax, g1))
  /\ applied' = applied + 1
  /\ maxPly' = Max(maxPly, (Len(game.history) + 1) - Len(game0.history))
  /\ UNCHANGED <<variant, difficulty, pc, possibleMoves, depth, isMaximizing, rootIdx,
                 bestMove, bestValue, result, game0, scores, ret, jitters, oobRead,
                 failed, prev, calls>>
  /\ UNCHANGED appVars

\* what the caller does when the innermost minimax call returns evalVal:
\* game.undo(), then the update of its best value and of its window (a node)
\* or of bestValue and bestMove (the root)
Resume(evalVal) ==
  LET n == Len(stack) IN
  /\ game' = Undo(game)
  /\ IF n = 1
       THEN /\ stack' = <<>>
            /\ scores' = [m \in DOMAIN scores \cup {possibleMoves[rootIdx]} |->
                            IF m = possibleMoves[rootIdx] THEN evalVal ELSE scores[m]]
            /\ IF RootBetter(isMaximizing, evalVal, bestValue)
                 THEN /\ bestValue' = evalVal
                      /\ bestMove' = possibleMoves[rootIdx]
                 ELSE UNCHANGED <<bestValue, bestMove>>
            /\ rootIdx' = rootIdx + 1
       ELSE /\ LET c == stack[n - 1]
                   best == IF c.isMax THEN Max(c.bestEval, evalVal) ELSE Min(c.bestEval, evalVal)
                   a == IF c.isMax THEN NewAlpha(variant, c.alpha, evalVal, best) ELSE c.alpha
                   b == IF c.isMax THEN c.beta ELSE NewBeta(variant, c.beta, evalVal, best)
               IN stack' = [SubSeq(stack, 1, n - 1) EXCEPT
                              ![n - 1] = [c EXCEPT !.bestEval = best, !.alpha = a, !.beta = b,
                                                   !.cut = Cutoff(a, b)]]
            /\ UNCHANGED <<scores, bestValue, bestMove, rootIdx>>

\* the innermost call returns before its loop: the evaluation of the
\* position (or, in part_003, the score of a position without moves)
MinimaxLeaf ==
  /\ stack # <<>>
  /\ LET f == stack[Len(stack)] IN
       /\ IsTerminal(variant, f.depth, game)
       /\ \E jsq \in {-1} \cup (IF variant = "E1" /\ jitters < MaxJitter
                                  THEN Occupied(board(game)) ELSE {}) :
            LET v == TerminalValue(variant, f.depth, f.isMax, game, jsq) IN
              /\ jitters' = IF jsq = -1 THEN jitters ELSE jitters + 1
              /\ ret' = [called |-> TRUE, game |-> game, depth |-> f.depth,
                         isMax |-> f.isMax, leaf |-> TRUE, val |-> v]
              /\ Resume(v)
  /\ UNCHANGED <<variant, difficulty, pc, possibleMoves, depth, isMaximizing, result,
                 game0, applied, oobRead, maxPly, failed, prev, calls>>
  /\ UNCHANGED appVars

\* the innermost call returns bestEval: its loop ran to the end or was cut
MinimaxReturn ==
  /\ stack # <<>>
  /\ LET f == stack[Len(stack)] IN
       /\ ~IsTerminal(variant, f.depth, game)
       /\ f.cut \/ f.idx > Len(f.moves)
       /\ ret' = [called |-> TRUE, game |-> game, depth |-> f.depth,
                  isMax |-> f.isMax, leaf |-> FALSE, val |-> f.bestEval]
       /\ Resume(f.bestEval)
  /\ UNCHANGED <<variant, difficulty, pc, possibleMoves, depth, isMaximizing, result,
                 game0, applied, jitters, oobRead, maxPly, failed, prev, calls>>
  /\ UNCHANGED appVars

\* the root loop is over: getBestMove returns
RootReturn ==
  /\ pc = "root"
  /\ stack = <<>>
  /\ rootIdx > Len(possibleMoves)
  /\ result' = FallBack(variant, bestMove, possibleMoves)
  /\ pc' = "done"
  /\ UNCHANGED <<variant, difficulty, game, possibleMoves, depth, isMaximizing, rootIdx,
                 bestMove, bestValue, stack, game0, applied, scores, ret, jitters, oobRead,
                 maxPly, failed, prev, calls>>
  /\ UNCHANGED appVars

\* the caller asks again, for the same position and difficulty
CallAgain ==
  /\ pc = "done"
  /\ calls < MaxCalls
  /\ prev' = [result |-> result, scores |-> scores, bestValue |-> bestValue]
  /\ calls' = calls + 1
  /\ pc' = "idle"
  /\ possibleMoves' = <<>>
  /\ depth' = 0
  /\ isMaximizing' = TRUE
  /\ rootIdx' = 1
  /\ bestMove' = Null
  /\ bestValue' = 0
  /\ result' = Undefined
  /\ applied' = 0
  /\ scores' = [m \in {} |-> 0]
  /\ ret' = NoRet
  /\ oobRead' = FALSE
  /\ maxPly' = 0
  /\ UNCHANGED <<variant, difficulty, game, stack, game0, jitters, failed>>
  /\ UNCHANGED appVars

Next ==
  GetBestMove \/ RootMove \/ MinimaxMove \/ MinimaxLeaf \/ MinimaxReturn \/ RootReturn
    \/ CallAgain

Catches_ReturnsNull(v) == TRUE
\* engine.ts wraps no game.move in a try block
Catches(v) == FALSE
\* a game.move of the search throws: the exception unwinds minimax and
\* getBestMove, no game.undo runs and nothing is returned
MoveThrows ==
  /\ \/ pc = "root" /\ stack = <<>> /\ rootIdx <= Len(possibleMoves)
     \/ /\ stack # <<>>
        /\ LET f == stack[Len(stack)] IN
             ~IsTerminal(variant, f.depth, game) /\ ~f.cut /\ f.idx <= Len(f.moves)
  /\ failed' = TRUE
  /\ stack' = <<>>
  /\ IF Catches(variant)
       THEN pc' = "done" /\ result' = Null
       ELSE pc' = "thrown" /\ UNCHANGED result
  /\ UNCHANGED <<variant, difficulty, game, possibleMoves, depth, isMaximizing, rootIdx,
                 bestMove, bestValue, game0, applied, scores, ret, jitters, oobRead,
                 maxPly, prev, calls>>
  /\ UNCHANGED appVars

\* the search with a rules engine that may fail to apply a move
NextFault == Next \/ MoveThrows
SpecFault == Init /\ [][NextFault]_vars

Spec == Init /\ [][Next]_vars
\* ================================================================= claims
\* the legal moves of the position passed in
LegalMoves0 == {moves(game0)[k] : k \in DOMAIN moves(game0)}
\* the call has returned after a search (not Beginner, not an empty list)
Searched == pc = "done" /\ difficulty # "Beginner" /\ LegalMoves0 # {}
SetMax(S) == CHOOSE x \in S : \A y \in S : x >= y
SetMin(S) == CHOOSE x \in S : \A y \in S : x <= y

\* C1: when getBestMove of engine.ts (either variant) has returned, the
\* Chess object holds the position and the history it held at the call.
C1_PositionRestored ==
  (pc = "done" /\ variant \in {"E1", "E2"}) => game = game0
C1_Witness ==
  /\ pc = "done" /\ variant \in {"E1", "E2"}
  /\ applied >= 3 /\ game = game0

\* C2: a value returned by getBestMove of engine.ts, part_004 or part_005
\* that is not the no-move sentinel is a legal move of the position passed in.
C2_ReturnedMoveIsLegal ==
  (pc = "done" /\ variant \in {"E1", "E2", "P4", "P5a", "P5b"} /\ result # NoMove(variant))
    => result \in LegalMoves0
C2_Witness ==
  /\ Searched /\ variant \in {"E1", "E2", "P4", "P5a", "P5b"}
  /\ Len(moves(game0)) >= 2 /\ result = moves(game0)[2]

\* C3: getBestMove of engine.ts, part_004 and part_005 returns the no-move
\* sentinel exactly when the position passed in has no legal move, and then
\* it has applied no move; with a legal move it returns no sentinel, also
\* when no root score beat the initial bestValue.
C3_SentinelIffNoMoves ==
  (pc = "done" /\ variant \in {"E1", "E2", "P4", "P5a", "P5b"})
    => /\ (result = NoMove(variant)) <=> (LegalMoves0 = {})
       /\ LegalMoves0 = {} => (applied = 0 /\ game = game0)
C3_Witness ==
  /\ Searched /\ variant \in {"E2", "P5a", "P5b"}
  /\ ~Truthy(bestMove) /\ DOMAIN scores # {}
  /\ result = moves(game0)[1]

\* C4: getBestMove of part_003 on a position without legal moves returns a
\* no-move sentinel and reads no element of the empty move list.
C4_EmptyListHandled ==
  (pc = "done" /\ variant = "P3" /\ LegalMoves0 = {})
    => (result \in {Null, EmptyString} /\ ~oobRead)

\* The depth-d minimax value of a position on the white-positive scale of
\* evaluateBoard (jitter 0): white picks the highest value and black the
\* lowest; a node ends the search where the variant's minimax ends it.
RECURSIVE WhiteMinimax(_, _, _)
WhiteMinimax(v, g, d) ==
  IF IsTerminal(v, d, g)
    THEN (IF v = "P3" /\ d # 0
            THEN (IF isCheckmate(g) THEN (IF turn(g) = "w" THEN -10000 ELSE 10000) ELSE 0)
            ELSE evaluateBoard(v, g, -1))
    ELSE LET vals == {WhiteMinimax(v, Move(g, moves(g)[k]), d - 1) : k \in DOMAIN moves(g)}
         IN IF turn(g) = "w" THEN SetMax(vals \cup {InitBestEval(v, TRUE)})
            ELSE SetMin(vals \cup {InitBestEval(v, FALSE)})
\* the white-positive value of the root move m under the mapped depth
RootValue(m) == WhiteMinimax(variant, Move(game0, m), depth - 1)
\* the move returned is optimal for the side to move at the root
OptimalForSideToMove ==
  /\ result \in LegalMoves0
  /\ \A m \in LegalMoves0 :
       IF turn(game0) = "w" THEN RootValue(result) >= RootValue(m)
       ELSE RootValue(result) <= RootValue(m)

\* C5: with jitter 0, the move returned by the first variant of engine.ts
\* has the highest depth-D value of all legal moves when white is to move
\* and the lowest when black is to move.
C5_OptimalForRootSide ==
  (Searched /\ variant = "E1" /\ jitters = 0) => OptimalForSideToMove

\* C6: the move returned by the second variant of engine.ts, by part_004 and
\* by part_005 is best for the side that is to move at the root, white or black.
C6_RootFollowsSideToMove ==
  (Searched /\ variant \in {"E2", "P4", "P5a", "P5b"}) => OptimalForSideToMove

\* minimax of the variant v without the pruning test
RECURSIVE NoPrune(_, _, _, _)
NoPrune(v, g, d, isMax) ==
  IF IsTerminal(v, d, g) THEN TerminalValue(v, d, isMax, g, -1)
  ELSE LET vals == {NoPrune(v, Move(g, moves(g)[k]), d - 1, ~isMax) : k \in DOMAIN moves(g)}
       IN IF isMax THEN SetMax(vals \cup {InitBestEval(v, TRUE)})
          ELSE SetMin(vals \cup {InitBestEval(v, FALSE)})
UnprunedScore(m) ==
  NoPrune(variant, Move(game0, m), RootChildDepth(variant, depth), RootChildIsMax(variant, game0))

\* C7: in the second variant of engine.ts and in part_003 every root score
\* computed with alpha-beta pruning equals the score the same recursion gives
\* without the pruning test, and so does the best root score.
C7_PruningKeepsScores ==
  (variant \in {"E2", "P3"} /\ pc \in {"root", "done"} /\ stack = <<>>)
    => /\ \A m \in DOMAIN scores : scores[m] = UnprunedScore(m)
       /\ Searched =>
            bestValue = SetMax({UnprunedScore(m) : m \in LegalMoves0}
                               \cup {InitBestValue(variant, TRUE)})
C7_Witness ==
  /\ variant \in {"E2", "P3"} /\ stack # <<>>
  /\ stack[Len(stack)].cut /\ stack[Len(stack)].idx <= Len(stack[Len(stack)].moves)

\* C8: minimax of part_003 returns the checkmate sentinel (-10000 for the
\* maximizing player, 10000 otherwise) on a checkmated position at every depth.
C8_MateSentinelAtEveryDepth ==
  (variant = "P3" /\ ret.called /\ isCheckmate(ret.game))
    => ret.val = (IF ret.isMax THEN -10000 ELSE 10000)

\* the largest material balance a board can have: kings cancel, nine queens
\* two rooks, two bishops and two knights against a bare king
MaxMaterial(v) ==
  LET pv == IF v = "E1" THEN PIECE_VALUES_E1 ELSE PIECE_VALUES_E2
  IN (9 * pv.q) + (2 * pv.r) + (2 * pv.b) + (2 * pv.n)

\* C9: minimax of engine.ts (either variant) returns on a checkmated position
\* a score whose magnitude exceeds every material evaluation, at every depth.
C9_MateIsDecisive ==
  (variant \in {"E1", "E2"} /\ ret.called /\ isCheckmate(ret.game))
    => Abs(ret.val) > MaxMaterial(variant)

\* C10: minimax of engine.ts (second variant) and of part_005 scores a
\* stalemate node with remaining depth > 0 as 0, which is not the score it
\* gives a checkmated node of the same depth and role.
C10_StalemateIsZero ==
  (variant \in {"E2", "P5a", "P5b"} /\ ret.called /\ ret.depth > 0 /\ isStalemate(ret.game))
    => (ret.val = 0 /\ ret.val # InitBestEval(variant, ret.isMax))

\* ------------------------------------------------------- repeated calls
\* the caller has asked twice and both calls searched
Repeated == Searched /\ calls > 1

\* C11: in the first variant of engine.ts the evaluation of a position is a
\* function of the position alone, and a second call of getBestMove on the
\* same position and non-Beginner difficulty computes the root scores of the
\* first call.
C11_EvaluationIsDeterministic ==
  /\ (variant = "E1" /\ ret.called /\ ret.leaf)
       => ret.val = 0 - evaluateBoard("E1", ret.game, -1)
  /\ (variant = "E1" /\ Repeated) => scores = prev.scores

\* the root scores of a call: the scores of the moves it has searched
ScoreSet(sc) == {sc[m] : m \in DOMAIN sc}

\* C12: two calls of getBestMove of part_004 on one position with one
\* non-Beginner difficulty score every legal move, score it alike, and both
\* return a move whose root score is the maximum root score; only the move
\* itself may differ.
C12_ShuffleKeepsBestScore ==
  (variant = "P4" /\ Repeated) =>
    /\ DOMAIN scores = LegalMoves0
    /\ scores = prev.scores
    /\ result \in LegalMoves0
    /\ prev.result \in LegalMoves0
    /\ scores[result] = SetMax(ScoreSet(scores))
    /\ prev.scores[prev.result] = scores[result]
\* the second call has returned another move than the first
C12_Witness == variant = "P4" /\ Repeated /\ result # prev.result

\* the first move of the list pm whose root score is the greatest
FirstBest(pm, sc) ==
  pm[CHOOSE k \in DOMAIN pm :
       /\ sc[pm[k]] = SetMax(ScoreSet(sc))
       /\ \A j \in 1..(k - 1) : sc[pm[j]] < sc[pm[k]]]

\* C13: getBestMove of engine.ts (second variant) and of part_005 returns,
\* for a non-Beginner difficulty, the first move of game.moves() whose root
\* score is the maximum over all legal moves, and a second call on the same
\* inputs returns the same move.
C13_FirstBestMove ==
  (variant \in {"E2", "P5a", "P5b"} /\ Searched) =>
    /\ DOMAIN scores = LegalMoves0
    /\ result = FirstBest(moves(game0), scores)
    /\ calls > 1 => result = prev.result
\* a second call has returned, and a later move ties with the returned one
C13_Witness ==
  /\ variant \in {"E2", "P5a", "P5b"}
  /\ Repeated
  /\ \E m \in LegalMoves0 : m # result /\ scores[m] = scores[result]

\* the call is one of engine.ts with difficulty 'Beginner' on a position
\* that has a legal move
BeginnerCall ==
  variant \in {"E1", "E2"} /\ difficulty = "Beginner" /\ Len(moves(game)) > 0

\* C14: with difficulty 'Beginner' and a legal move, getBestMove of engine.ts
\* can return every legal move, returns a legal move, and until it returns
\* no minimax or evaluateBoard runs and no move is applied or undone.
C14_BeginnerPicksAnyLegalMove ==
  /\ (BeginnerCall /\ pc = "idle") =>
       \A k \in DOMAIN moves(game) : ENABLED (GetBestMove /\ result' = moves(game)[k])
  /\ (BeginnerCall /\ pc # "idle") =>
       /\ pc = "done"
       /\ result \in LegalMoves0
       /\ applied = 0
       /\ stack = <<>>
       /\ ~ret.called
       /\ game = game0
\* a Beginner call has returned another move than the first of the list
C14_Witness ==
  BeginnerCall /\ pc = "done" /\ result # moves(game0)[1] /\ result \in LegalMoves0

\* ------------------------------------------------------------ search depth
\* the first move can be played n times in a row from g before the game ends
RECURSIVE OpenLine(_, _)
OpenLine(g, n) ==
  n = 0 \/ (~isGameOver(g) /\ OpenLine(Move(g, moves(g)[1]), n - 1))

\* C15: under 'Master', getBestMove of part_003, of part_004 and of the
\* first variant of part_005 never has more than 4 moves applied at one time,
\* and has had 4 applied when it returns, whenever 4 moves can be played.
C15_MasterSearchesFourPlies ==
  (variant \in {"P3", "P4", "P5a"} /\ difficulty = "Master") =>
    /\ maxPly <= 4
    /\ (pc = "done" /\ OpenLine(game0, 4)) => maxPly = 4

\* the difficulty values the engines name
KnownDifficulties == {"Beginner", "Easy", "Hard", "Master"}

\* C16: for a difficulty outside Beginner, Easy, Hard and Master both
\* variants of getBestMove of engine.ts go on to search (or return the
\* no-move value), with one and the same depth in both variants, whatever
\* the position and the number of earlier calls.
C16_OneDefaultDepth ==
  (variant \in {"E1", "E2"} /\ difficulty \notin KnownDifficulties /\ pc # "idle") =>
    /\ pc \in {"root", "done"}
    /\ LegalMoves0 # {} =>
         \A v \in {"E1", "E2"} : depth = DepthOf(v, difficulty)

\* ------------------------------------------------------------ failing moves
\* C17: once a game.move of a search started by getBestMove of engine.ts has
\* thrown, the call is left by the exception: it returns no move, neither
\* null nor any other value.
C17_MoveFailurePropagates ==
  (variant \in {"E1", "E2"} /\ failed) => (pc = "thrown" /\ result = Undefined)
\* a game.move threw inside minimax, below a root move
C17_Witness ==
  /\ variant \in {"E1", "E2"}
  /\ failed
  /\ pc = "thrown"
  /\ Len(game.history) > Len(game0.history)

\* ------------------------------------------------------------- move / undo
\* C18: while a call of minimax of engine.ts is the innermost one, between
\* its child calls and at its return, by the end of the loop or by the
\* pruning test, the scratch position and its move stack are those of its
\* entry; each frame below it has exactly one move more applied than its
\* caller.
C18_MinimaxRestoresPosition ==
  (variant \in {"E1", "E2"} /\ stack # <<>>) =>
    /\ game = stack[Len(stack)].entry
    /\ \A k \in DOMAIN stack :
         Len(stack[k].entry.history) = Len(game0.history) + k
\* a call below another minimax call is about to return by the pruning test
C18_Witness ==
  /\ variant \in {"E1", "E2"}
  /\ Len(stack) >= 2
  /\ stack[Len(stack)].cut
  /\ stack[Len(stack)].idx <= Len(stack[Len(stack)].moves)
  /\ game = stack[Len(stack)].entry

\* the depth the claims give a difficulty: Easy 1, Hard 2, otherwise 3
ClaimedDepth(d) == IF d = "Easy" THEN 1 ELSE IF d = "Hard" THEN 2 ELSE 3
\* the number of moves applied to the scratch position beyond the caller's
Plies == Len(game.history) - Len(game0.history)

\* C19: in getBestMove of engine.ts (both variants) Easy, Hard and Master
\* give depth 1, 2 and 3, the minimax call of a root move has depth D - 1
\* and each call below one less than its caller, and never more than D
\* moves are applied beyond the caller's position.
C19_DepthBoundsSearch ==
  (/\ variant \in {"E1", "E2"}
   /\ difficulty \in {"Easy", "Hard", "Master"}
   /\ (pc = "root" \/ Searched)) =>
    /\ depth = ClaimedDepth(difficulty)
    /\ \A k \in DOMAIN stack : stack[k].depth = depth - k
    /\ Plies <= depth
    /\ maxPly <= depth
\* a Master search of engine.ts has returned after having had 3 moves applied
C19_Witness ==
  variant \in {"E1", "E2"} /\ difficulty = "Master" /\ Searched /\ maxPly = 3

\* C20: in getBestMove of part_003 the difficulty gives depth D (Easy 1, Hard
\* 2, otherwise 3), the minimax call of a root move has depth D - 1, the
\* roles alternate from ply to ply, and never more than D moves are applied
\* at one time.
C20_P3DepthBoundsSearch ==
  (variant = "P3" /\ difficulty # "Beginner" /\ pc \in {"root", "done"}) =>
    /\ depth = ClaimedDepth(difficulty)
    /\ \A k \in DOMAIN stack :
         /\ stack[k].depth = depth - k
         /\ stack[k].isMax = (k % 2 = 0)
    /\ maxPly <= depth

\* ------------------------------------------------------------ the leaves
\* C21: a call of minimax of engine.ts with depth 0 returns evaluateBoard of
\* its position, unchanged in sign, without a recursive call or a move.
C21_DepthZeroReturnsEvaluation ==
  (variant \in {"E1", "E2"} /\ ret.called /\ ret.depth = 0 /\ jitters = 0) =>
    /\ ret.leaf
    /\ ret.val = evaluateBoard(variant, ret.game, -1)

\* --------------------------------------------------------- the window
\* the frames that are on the stack before and after a step
Kept == 1..Min(Len(stack), Len(stack'))
\* a step narrows the window of every node it keeps, alpha in a maximizing
\* node and beta in a minimizing one
WindowNarrows ==
  \A k \in Kept :
    /\ stack'[k].alpha >= stack[k].alpha
    /\ stack'[k].beta <= stack[k].beta
    /\ stack[k].isMax => stack'[k].beta = stack[k].beta
    /\ ~stack[k].isMax => stack'[k].alpha = stack[k].alpha
\* every node that has a child applied has alpha < beta
OpenWindows == \A k \in 1..(Len(stack) - 1) : stack[k].alpha < stack[k].beta

\* C22: in a minimax node of engine.ts alpha never decreases and beta never
\* increases, a maximizing node changes only alpha and a minimizing node only
\* beta, and no child is applied in a node whose beta <= alpha.
C22_WindowOnlyNarrows ==
  /\ [][(variant \in {"E1", "E2"}) => WindowNarrows]_vars
  /\ [](variant \in {"E1", "E2"} => OpenWindows)
\* a maximizing node has raised its alpha to beta or above with moves left
C22_Witness ==
  /\ variant \in {"E1", "E2"}
  /\ \E k \in 2..Len(stack) :
       /\ stack[k].isMax
       /\ stack[k].alpha > stack[k - 1].alpha
       /\ stack[k].beta <= stack[k].alpha
       /\ stack[k].idx <= Len(stack[k].moves)

\* ------------------------------------------------------- the evaluators
\* the weights the claims give the pieces
Weights == [p |-> 10, n |-> 30, b |-> 30, r |-> 50, q |-> 90, k |-> 900]
\* the sum of the weights of the pieces of colour c on the board b
Material(b, c) ==
  SumTo([n \in 0..63 |->
    LET piece == b[n \div 8][n % 8]
    IN IF piece # NoPiece /\ piece.color = c THEN Weights[piece.type] ELSE 0], 64)
OtherColour(c) == IF c = "w" THEN "b" ELSE "w"
\* the board b with the colour of every piece exchanged
SwapColours(b) ==
  [i \in 0..7 |-> [j \in 0..7 |->
     IF b[i][j] = NoPiece THEN NoPiece
     ELSE Pc(b[i][j].type, OtherColour(b[i][j].color))]]
\* the same position with the other side to move
OtherSide(g) == [g EXCEPT !.first = OtherColour(g.first)]
\* evaluateBoard of the second variant of engine.ts or of part_005 (first)
MaterialEval(v, b) == IF v = "E2" THEN evaluateBoard_E2(b) ELSE evaluateBoard_P5a(b)

\* C23: the board evaluated at a leaf of engine.ts (second variant) or of
\* part_005 (first variant) scores the white material minus the black
\* material with the weights 10, 30, 30, 50, 90, 900, scores the same with
\* the other side to move, and the opposite with all colours exchanged.
C23_MaterialBalance ==
  (variant \in {"E2", "P5a"} /\ ret.called /\ ret.leaf) =>
    LET b == board(ret.game)
        e == MaterialEval(variant, b)
    IN /\ ret.val = 0 - e
       /\ e = Material(b, "w") - Material(b, "b")
       /\ evaluateBoard(variant, OtherSide(ret.game), -1) = e
       /\ MaterialEval(variant, SwapColours(b)) = 0 - e
\* a leaf was evaluated where both sides have more than the king and the
\* material is not balanced
C23_Witness ==
  /\ variant \in {"E2", "P5a"}
  /\ ret.called
  /\ ret.leaf
  /\ Material(board(ret.game), "w") > 900
  /\ Material(board(ret.game), "b") > 900
  /\ ret.val # 0

\* the board b turned upside down (row i to row 7 - i) with the colour of
\* every piece exchanged
Mirror(b) == [i \in 0..7 |-> SwapColours(b)[7 - i]]
\* the piece-square bonus part_003 adds for a piece on row i, column j
Bonus(piece, i, j) ==
  IF piece.type \in DOMAIN PST_P3
    THEN PST_P3[piece.type][(IF piece.color = "w" THEN i ELSE 7 - i) + 1][j + 1]
    ELSE 0

\* C24: for the board evaluated at a depth-0 leaf of part_003, the score of
\* the board and the score of its mirror image (rows reversed, colours
\* exchanged) add up to 0, a piece and its mirror image drawing the same
\* piece-square bonus.
C24_MirrorNegates ==
  (variant = "P3" /\ ret.called /\ ret.leaf /\ ret.depth = 0) =>
    LET b == board(ret.game) IN
      /\ ret.val = 0 - evaluateBoard_P3(b)
      /\ evaluateBoard_P3(b) + evaluateBoard_P3(Mirror(b)) = 0
      /\ \A i, j \in 0..7 :
           b[i][j] # NoPiece => Bonus(b[i][j], i, j) = Bonus(Mirror(b)[7 - i][j], 7 - i, j)
\* a leaf was evaluated whose board holds a pawn or a knight with a bonus
C24_Witness ==
  /\ variant = "P3"
  /\ ret.called
  /\ ret.leaf
  /\ ret.depth = 0
  /\ \E i, j \in 0..7 :
       /\ board(ret.game)[i][j] # NoPiece
       /\ Bonus(board(ret.game)[i][j], i, j) # 0
       /\ board(ret.game)[i][j].color = "b"

\* ------------------------------------------------------------ termination
\* C25: in getBestMove of engine.ts, part_004 and part_005, for every
\* difficulty, each minimax call has a depth >= 0, one less than its
\* caller's, and the calls nested in one another are at most as many as the
\* depth the difficulty maps to.
C25_RecursionBoundedByDepth ==
  (variant \in {"E1", "E2", "P4", "P5a", "P5b"} /\ stack # <<>>) =>
    /\ depth >= 1
    /\ \A k \in DOMAIN stack : stack[k].depth = depth - k /\ stack[k].depth >= 0
    /\ Len(stack) <= depth

\* ===================================================================== Apps
\* The Apps are modelled with the engine at rest; getBestMove is then the
\* choice of one legal move of the position it is given.
engineVars == <<variant, difficulty, game, pc, possibleMoves, depth, isMaximizing, rootIdx,
                bestMove, bestValue, stack, result, game0, applied, scores, ret, jitters,
                oobRead, maxPly, failed, prev, calls>>
EngineOff ==
  /\ variant = "E1" /\ difficulty = "Easy" /\ game = NoRet.game /\ pc = "idle"
  /\ possibleMoves = <<>> /\ depth = 0 /\ isMaximizing = TRUE /\ rootIdx = 1
  /\ bestMove = Null /\ bestValue = 0 /\ stack = <<>> /\ result = Undefined
  /\ game0 = NoRet.game /\ applied = 0 /\ scores = [m \in {} |-> 0] /\ ret = NoRet
  /\ jitters = 0 /\ oobRead = FALSE /\ maxPly = 0 /\ failed = FALSE
  /\ prev = [result |-> Undefined, scores |-> [m \in {} |-> 0], bestValue |-> 0]
  /\ calls = 1

\* game.fen(): the position, without the move stack
Fen(g) == [seed |-> g.seed, first |-> g.first, pos |-> g.pos]
\* new Chess(fen)
NewChess(fen) == [seed |-> fen.seed, first |-> fen.first, pos |-> fen.pos, history |-> <<>>]
\* new Chess()
StartFen(seed) == [seed |-> seed, first |-> "w", pos |-> <<>>]
\* the moves a user can try to drop: the legal ones and others
Drops == {SAN(k) : k \in 1..(MaxMoves + 1)}
\* the moves getBestMove may return for a position that has a legal move
EngineMoves(g) == {moves(g)[k] : k \in DOMAIN moves(g)}
\* a position p is reached from the position q by zero or more moves
Extends(p, q) ==
  /\ p.seed = q.seed
  /\ Len(p.pos) >= Len(q.pos)
  /\ SubSeq(p.pos, 1, Len(q.pos)) = q.pos

\* ------------------------------------------------------ App.tsx, mode 'ai'
\* makeAMove of a render whose state is g: what it returns (Null when
\* gameCopy.move throws) and the state it sets
App_makeAMove(g, move) ==
  LET gameCopy == NewChess(Fen(g)) IN
    IF CanMove(gameCopy, move)
      THEN [result |-> move, game |-> Move(gameCopy, move)]
      ELSE [result |-> Null, game |-> g]
\* no timer has fired and the user has done nothing
NoFire == [fired |-> FALSE, made |-> 0]
InitAppAi ==
  /\ EngineOff
  /\ \E seed \in 1..NumGames : ui = [game |-> NewChess(StartFen(seed)), mode |-> "ai"]
  /\ srv = <<>>
  /\ tasks = <<>>
  /\ log = NoFire
\* onDrop: the move is tried on a copy; when it is legal the copy becomes
\* the state and makeRandomMove of this render is scheduled
App_onDrop_ai ==
  /\ ui.mode = "ai"
  /\ log.made < MaxActs
  /\ \E move \in Drops :
       LET r == App_makeAMove(ui.game, move) IN
         IF r.result = Null
           THEN UNCHANGED <<ui, tasks, log>>
           ELSE /\ ui' = [ui EXCEPT !.game = r.game]
                /\ tasks' = Append(tasks, [game |-> ui.game, accepted |-> Fen(r.game)])
                /\ log' = [log EXCEPT !.made = log.made + 1]
  /\ UNCHANGED srv
  /\ UNCHANGED engineVars
\* the timer fires: makeRandomMove of the render that scheduled it
App_makeRandomMove ==
  /\ tasks # <<>>
  /\ LET t == Head(tasks) IN
       IF isGameOver(t.game)
         THEN UNCHANGED <<ui, log>>
         ELSE \E move \in EngineMoves(NewChess(Fen(t.game))) :
                LET r == App_makeAMove(t.game, move) IN
                  /\ ui' = [ui EXCEPT !.game = r.game]
                  /\ log' = [fired |-> TRUE, made |-> log.made, asked |-> Fen(t.game),
                             accepted |-> t.accepted, after |-> Fen(r.game)]
  /\ tasks' = Tail(tasks)
  /\ UNCHANGED srv
  /\ UNCHANGED engineVars
NextAppAi == App_onDrop_ai \/ App_makeRandomMove
SpecAppAi == InitAppAi /\ [][NextAppAi]_vars

\* C26: in mode 'ai' of App.tsx, when the timer scheduled by an accepted
\* drop fires, the engine is asked about a position that contains the
\* user's move, and the state after the reply contains the user's move and
\* one move more than the position asked about.
C26_UserMoveKept ==
  log.fired =>
    /\ Extends(log.asked, log.accepted)
    /\ Extends(log.after, log.accepted)
    /\ Len(log.after.pos) = Len(log.asked.pos) + 1

\* -------------------------------------------------- App.tsx, mode 'online'
\* the playerIds; the first creates the game, the others join it
Players == {"p1", "p2", "p3"}
GameId == "g"
\* the functions of a render of the client p read the state of that render
Render(p) == ui[p]
\* the row of the table games after an update, and the UPDATE events the
\* subscribed clients are sent for it
Notify(row) ==
  {[kind |-> "change", player |-> p, fen |-> row.fen] : p \in {q \in Players : ui[q].subscribed}}
\* no move has been written and nobody has joined as black
NoWrite ==
  [wrote |-> FALSE, made |-> 0, black |-> Null, before |-> Null, written |-> Null,
   after |-> Null]
InitAppOnline ==
  /\ EngineOff
  /\ \E seed \in 1..NumGames :
       ui = [p \in Players |->
               [game |-> NewChess(StartFen(seed)), mode |-> "menu", onlineGameId |-> Null,
                playerColor |-> "w", subscribed |-> FALSE, subGame |-> NewChess(StartFen(seed))]]
  /\ srv = [status |-> "none", fen |-> Null, white_player_id |-> Null, black_player_id |-> Null]
  /\ tasks = {}
  /\ log = NoWrite
\* createOnlineGame: insert the row, then become white and subscribe
App_createOnlineGame ==
  /\ srv.status = "none"
  /\ \E p \in {"p1"} :
       /\ ui[p].mode = "menu"
       /\ srv' = [status |-> "waiting", fen |-> Fen(ui[p].game), white_player_id |-> p,
                  black_player_id |-> Null]
       /\ ui' = [ui EXCEPT ![p] = [@ EXCEPT !.onlineGameId = GameId, !.playerColor = "w",
                                              !.mode = "online", !.subscribed = TRUE,
                                              !.subGame = Render(p).game]]
  /\ UNCHANGED <<tasks, log>>
  /\ UNCHANGED engineVars
\* joinOnlineGame up to the answer of its select
App_joinOnlineGame_select ==
  /\ srv.status # "none"
  /\ \E p \in Players :
       /\ ui[p].mode = "menu"
       /\ \A t \in tasks : ~(t.kind = "join" /\ t.player = p)
       /\ tasks' = tasks \cup {[kind |-> "join", player |-> p, data |-> srv]}
  /\ UNCHANGED <<ui, srv, log>>
  /\ UNCHANGED engineVars
\* joinOnlineGame from the answer of its select on
App_joinOnlineGame_update ==
  /\ \E t \in {u \in tasks : u.kind = "join"} :
       LET p == t.player
           data == t.data
       IN IF data.status # "waiting" /\ data.black_player_id # p /\ data.white_player_id # p
            THEN /\ tasks' = tasks \ {t}
                 /\ UNCHANGED <<ui, srv, log>>
            ELSE LET row == IF data.white_player_id # p
                              THEN [srv EXCEPT !.black_player_id = p, !.status = "playing"]
                              ELSE srv
                 IN /\ srv' = row
                    /\ tasks' = (tasks \ {t}) \cup (IF data.white_player_id # p
                                                      THEN Notify(row) ELSE {})
                    /\ ui' = [ui EXCEPT ![p] =
                                [game |-> NewChess(data.fen), mode |-> "online",
                                 onlineGameId |-> GameId,
                                 playerColor |-> IF data.white_player_id # p THEN "b" ELSE "w",
                                 subscribed |-> TRUE, subGame |-> Render(p).game]]
                    /\ log' = IF data.white_player_id # p /\ log.black = Null
                                THEN [log EXCEPT !.black = p] ELSE log
  /\ UNCHANGED engineVars
\* onDrop in mode 'online': the turn test, makeAMove, updateOnlineGame
App_onDrop_online ==
  /\ log.made < MaxActs
  /\ \E p \in Players, move \in Drops :
       /\ ui[p].mode = "online"
       /\ IF turn(Render(p).game) # Render(p).playerColor
            THEN UNCHANGED <<ui, srv, tasks, log>>
            ELSE LET r == App_makeAMove(Render(p).game, move) IN
                   IF r.result = Null
                     THEN UNCHANGED <<ui, srv, tasks, log>>
                     ELSE LET row == [srv EXCEPT !.fen = Fen(Render(p).game)] IN
                            /\ ui' = [ui EXCEPT ![p].game = r.game]
                            /\ srv' = row
                            /\ tasks' = tasks \cup Notify(row)
                            /\ log' = [log EXCEPT !.wrote = TRUE, !.made = log.made + 1,
                                                  !.before = srv.fen, !.written = row.fen,
                                                  !.after = Fen(r.game)]
  /\ UNCHANGED engineVars
\* the callback of subscribeToGame, of the render that subscribed
App_subscribeToGame_callback ==
  /\ \E t \in {u \in tasks : u.kind = "change"} :
       LET p == t.player
           newFen == t.fen
       IN /\ tasks' = tasks \ {t}
          /\ IF newFen # Fen(ui[p].subGame)
               THEN ui' = [ui EXCEPT ![p].game = NewChess(newFen)]
               ELSE UNCHANGED ui
  /\ UNCHANGED <<srv, log>>
  /\ UNCHANGED engineVars
NextAppOnline ==
  \/ App_createOnlineGame
  \/ App_joinOnlineGame_select
  \/ App_joinOnlineGame_update
  \/ App_onDrop_online
  \/ App_subscribeToGame_callback
SpecAppOnline == InitAppOnline /\ [][NextAppOnline]_vars

\* C27: in mode 'online' of App.tsx the FEN an accepted drop writes to the
\* shared record is the position after the move, and differs from the FEN
\* the record held before.
C27_WrittenFenIsAfterMove ==
  log.wrote => (log.written = log.after /\ log.written # log.before)

\* C28: an online game of App.tsx has at most one client playing black, and
\* once a player has joined as black the record's black_player_id stays that
\* player's.
C28_OneBlackPlayer ==
  /\ Cardinality({p \in Players : ui[p].mode = "online" /\ ui[p].playerColor = "b"}) <= 1
  /\ log.black # Null => srv.black_player_id = log.black

\* ----------------------------------------------- part_001, mode 'AI'
\* ui.objs is the heap of Chess objects, ui.game the index of the one in
\* the state; a timer keeps the index of the object its closure captured.
\* the effect of a render with state u: the timers after it has run
P1_useEffect(u, pending) ==
  LET g == u.objs[u.game] IN
    IF u.mode = "AI" /\ turn(g) # u.playerColor /\ ~isGameOver(g)
      THEN Append(pending, [game |-> u.game, difficulty |-> u.difficulty])
      ELSE pending
\* makeAMove of a render whose game is the object i: game.move on the
\* object itself, then setGame with a copy
P1_makeAMove(u, i, move) ==
  IF CanMove(u.objs[i], move)
    THEN LET moved == Move(u.objs[i], move) IN
           [u EXCEPT !.objs = Append([u.objs EXCEPT ![i] = moved], NewChess(Fen(moved))),
                     !.game = Len(u.objs) + 1]
    ELSE u
\* the difficulty buttons the user presses
P1_Levels == {"Easy", "Hard"}
NoAiMove == [fired |-> FALSE, made |-> 0, mover |-> Null, engineMoves |-> 0, userMoves |-> 0]
InitApp1 ==
  /\ EngineOff
  /\ \E seed \in 1..NumGames :
       ui = [objs |-> <<NewChess(StartFen(seed))>>, game |-> 1, mode |-> "AI",
             difficulty |-> "Easy", playerColor |-> "w"]
  /\ srv = <<>>
  /\ tasks = <<>>
  /\ log = NoAiMove
\* onDrop, and the effect of the render that follows an accepted move
P1_onDrop ==
  /\ log.made < MaxActs
  /\ \E move \in Drops :
       IF ui.mode = "AI" /\ turn(ui.objs[ui.game]) # ui.playerColor
         THEN UNCHANGED <<ui, tasks, log>>
         ELSE LET u == P1_makeAMove(ui, ui.game, move) IN
                IF u = ui
                  THEN UNCHANGED <<ui, tasks, log>>
                  ELSE /\ ui' = u
                       /\ tasks' = P1_useEffect(u, tasks)
                       /\ log' = [log EXCEPT !.made = log.made + 1,
                                             !.userMoves = log.userMoves + 1]
  /\ UNCHANGED srv
  /\ UNCHANGED engineVars
\* a difficulty button, and the effect of the render that follows
P1_setDifficulty ==
  /\ log.made < MaxActs
  /\ \E d \in P1_Levels \ {ui.difficulty} :
       LET u == [ui EXCEPT !.difficulty = d] IN
         /\ ui' = u
         /\ tasks' = P1_useEffect(u, tasks)
  /\ log' = [log EXCEPT !.made = log.made + 1]
  /\ UNCHANGED srv
  /\ UNCHANGED engineVars
\* the timer of the effect fires: getBestMove and makeAMove on the object
\* of the render that set it, and the effect of the render that follows
P1_timer ==
  /\ tasks # <<>>
  /\ LET t == Head(tasks)
         g == ui.objs[t.game]
     IN IF EngineMoves(g) = {}
          THEN /\ tasks' = Tail(tasks)
               /\ UNCHANGED <<ui, log>>
          ELSE \E aiMove \in EngineMoves(g) :
                 LET u == P1_makeAMove(ui, t.game, aiMove) IN
                   /\ ui' = u
                   /\ tasks' = P1_useEffect(u, Tail(tasks))
                   /\ log' = [log EXCEPT !.fired = TRUE, !.mover = turn(g),
                                         !.engineMoves = log.engineMoves + 1]
  /\ UNCHANGED srv
  /\ UNCHANGED engineVars
NextApp1 == P1_onDrop \/ P1_setDifficulty \/ P1_timer
SpecApp1 == InitApp1 /\ [][NextApp1]_vars

\* C29: in mode 'AI' of part_001 every move the timer callback applies is a
\* move of the colour that is not playerColor, and the engine has made at
\* most one move for each move of the user.
C29_EngineMovesOwnColourOnce ==
  /\ log.fired => log.mover # ui.playerColor
  /\ log.engineMoves <= log.userMoves

\* ------------------------------------------ part_002, mode 'multiplayer'
\* the two clients of a room; startMultiplayer gives the host white
Clients == {"host", "guest"}
P2_Color(c) == IF c = "host" THEN "w" ELSE "b"
\* checkGameOver
P2_checkGameOver(g) ==
  IF isCheckmate(g) THEN "checkmate"
  ELSE IF isStalemate(g) \/ isOtherDraw(g) THEN "draw"
  ELSE "playing"
\* clone.move({from, to}) succeeds on the position g: the squares name a
\* piece of the side that sent the move, so it has to be that side's turn
P2_CanApply(g, msg) == turn(g) = msg.by /\ CanMove(g, msg.san)
NoBroadcast == [processed |-> FALSE, made |-> 0, local |-> Null, newFen |-> Null]
InitApp2 ==
  /\ EngineOff
  /\ \E seed \in 1..NumGames :
       ui = [c \in Clients |->
               [game |-> NewChess(StartFen(seed)), mode |-> "multiplayer",
                playerColor |-> P2_Color(c), status |-> "playing"]]
  /\ srv = "room"
  /\ tasks = [c \in Clients |-> <<>>]
  /\ log = NoBroadcast
\* handleUserMove: the tests, safeMove on the game object, the broadcast,
\* which the channel also sends back to the sender
P2_handleUserMove ==
  /\ log.made < MaxActs
  /\ \E c \in Clients, san \in Drops :
       LET g == ui[c].game IN
         IF turn(g) # ui[c].playerColor \/ ui[c].status # "playing" \/ ~CanMove(g, san)
           THEN UNCHANGED <<ui, tasks, log>>
           ELSE LET moved == Move(g, san)
                    msg == [san |-> san, by |-> turn(g), newFen |-> Fen(moved)]
                IN /\ ui' = [ui EXCEPT ![c].game = moved,
                                       ![c].status = P2_checkGameOver(moved)]
                   /\ tasks' = [d \in Clients |-> Append(tasks[d], msg)]
                   /\ log' = [log EXCEPT !.made = log.made + 1]
  /\ UNCHANGED srv
  /\ UNCHANGED engineVars
\* the 'move' handler of the channel
P2_onBroadcast ==
  /\ \E c \in Clients :
       /\ tasks[c] # <<>>
       /\ LET msg == Head(tasks[c])
              clone == NewChess(Fen(ui[c].game))
              next == IF P2_CanApply(clone, msg)
                        THEN [ui[c] EXCEPT !.game = Move(clone, msg.san),
                                           !.status = P2_checkGameOver(Move(clone, msg.san))]
                        ELSE [ui[c] EXCEPT !.game = NewChess(msg.newFen)]
          IN /\ ui' = [ui EXCEPT ![c] = next]
             /\ tasks' = [tasks EXCEPT ![c] = Tail(tasks[c])]
             /\ log' = [log EXCEPT !.processed = TRUE, !.local = Fen(next.game),
                                   !.newFen = msg.newFen]
  /\ UNCHANGED srv
  /\ UNCHANGED engineVars
\* resetGame: a new local game, nothing is sent
P2_resetGame ==
  /\ \E c \in Clients :
       /\ ui[c].game.pos # <<>>
       /\ ui' = [ui EXCEPT ![c].game = NewChess(StartFen(ui[c].game.seed)),
                           ![c].status = "playing"]
  /\ UNCHANGED <<srv, tasks, log>>
  /\ UNCHANGED engineVars
NextApp2 == P2_handleUserMove \/ P2_onBroadcast \/ P2_resetGame
SpecApp2 == InitApp2 /\ [][NextApp2]_vars

\* C30: after a client of part_002 has processed a 'move' broadcast, its
\* local position is the newFen of the broadcast.
C30_BroadcastSynchronizes ==
  log.processed => log.local = log.newFen
====
